---- MODULE Spec2Model ----
(***************************************************************************)
(* WilsonArchiveScraper (src/scraper.py): the resumable crawl of numbered  *)
(* search pages, the SQLite store behind it (documents, completed_pages)   *)
(* and the CSV export.                                                     *)
(*                                                                         *)
(* Every stored value is an integer: a document URL u stands for           *)
(* BASE_URL/document/<u> (integer order = the text order SQLite sorts by), *)
(* a text value for a scraped string, a timestamp for datetime.now(), and  *)
(* Null for Python's None / SQL NULL.                                      *)
(***************************************************************************)
EXTENDS Integers, Sequences, FiniteSets, TLC

(* ------------------------------ bounds -------------------------------- *)
\* pages are numbered 0..MaxPage
MaxPage == 1
\* document URLs are 1..NumUrls
NumUrls == 2
\* scraped text values are 1..NumTexts
NumTexts == 1
\* scrape_range is started at most MaxRuns times in a behaviour
MaxRuns == 2
\* a selector query returns at most MaxElems elements
MaxElems == 2

\* None / NULL
Null == -1

Pages == 0..MaxPage
Urls == 1..NumUrls
Texts == 1..NumTexts

(* ------------------------------ schema -------------------------------- *)
\* CREATE TABLE documents: the column order of a store created by this code
SchemaColumns ==
  << "document_url", "page_number", "original_publication_date", "title",
     "credits", "text_body", "summary", "authors", "associated_places",
     "subjects_discussed", "associated_people_orgs", "source",
     "original_upload_date", "original_archive_title", "language", "rights",
     "record_id", "original_classification", "donors", "scraped_at" >>

\* a store created before page_number existed: ALTER TABLE appended it last
LegacyColumns ==
  << "document_url", "original_publication_date", "title",
     "credits", "text_body", "summary", "authors", "associated_places",
     "subjects_discussed", "associated_people_orgs", "source",
     "original_upload_date", "original_archive_title", "language", "rights",
     "record_id", "original_classification", "donors", "scraped_at",
     "page_number" >>

ColumnSet == {SchemaColumns[k] : k \in 1..Len(SchemaColumns)}

\* the keys scrape_document puts into its metadata dict
ScrapedFields == ColumnSet \ {"document_url", "page_number", "scraped_at"}

(* ------------------------------ the store ----------------------------- *)
\* dict.get(key): None for a missing key
MetadataGet(metadata, key) ==
  IF key \in DOMAIN metadata THEN metadata[key] ELSE Null

\* the VALUES tuple of save_document's INSERT, as a row
SaveDocumentRow(metadata) ==
  [c \in ColumnSet |->
     IF c \in {"document_url", "scraped_at"} THEN metadata[c]
     ELSE MetadataGet(metadata, c)]

\* a plain INSERT into a table without a key (used only as a mutation)
InsertNoKey(table, row, key) == table \cup {row}

\* INSERT OR REPLACE on a table whose PRIMARY KEY is column key
InsertOrReplace(table, row, key) ==
  {r \in table : r[key] # row[key]} \cup {row}

\* the row mark_page_completed inserts
CompletedRow(page_number, now) ==
  [page_number |-> page_number, completed_at |-> now]

\* is_page_completed answering "never" (used only as a mutation)
IsPageCompletedNever(table, page_number) == FALSE

\* is_page_completed looking up the page after (used only as a mutation)
IsPageCompletedOffByOne(table, page_number) ==
  \E r \in table : r.page_number = page_number + 1

\* SELECT 1 FROM completed_pages WHERE page_number = ? ... fetchone() is not None
IsPageCompleted(table, page_number) ==
  \E r \in table : r.page_number = page_number

(* ------------------------------ the export ---------------------------- *)
RECURSIVE OrderByPageThenUrl(_)
\* ORDER BY page_number, document_url (used only as a mutation)
OrderByPageThenUrl(table) ==
  IF table = {} THEN << >>
  ELSE LET first == CHOOSE r \in table : \A s \in table :
                       \/ r.page_number < s.page_number
                       \/ /\ r.page_number = s.page_number
                          /\ r.document_url <= s.document_url
       IN  <<first>> \o OrderByPageThenUrl(table \ {first})

RECURSIVE FetchWithPageNumber(_)
\* a SELECT that leaves out the records without page number (used only as a
\* mutation)
FetchWithPageNumber(table) ==
  LET paged == {r \in table : r.page_number # Null}
  IN  IF paged = {} THEN << >>
      ELSE LET first == CHOOSE r \in paged :
                          \A q \in paged : r.document_url <= q.document_url
           IN  <<first>> \o FetchWithPageNumber(paged \ {first})

RECURSIVE OrderByDocumentUrl(_)
\* SELECT * FROM documents ORDER BY document_url ... fetchall()
OrderByDocumentUrl(table) ==
  IF table = {} THEN << >>
  ELSE LET first == CHOOSE r \in table :
                       \A s \in table : r.document_url <= s.document_url
       IN  <<first>> \o OrderByDocumentUrl(table \ {first})

\* list.index(x), 0-based
ListIndex(list, x) == (CHOOSE k \in 1..Len(list) : list[k] = x) - 1

\* list.insert(idx, x), idx 0-based
ListInsert(list, idx, x) ==
  SubSeq(list, 1, idx) \o <<x>> \o SubSeq(list, idx + 1, Len(list))

\* the header row export_to_csv writes
ExportColumns(cols) ==
  LET insert_idx == ListIndex(cols, "page_number") + 1
  IN  ListInsert(ListInsert(cols, insert_idx, "page_zero_indexed"),
                 insert_idx + 1, "page_one_indexed")

\* a data row with the single cell page_num + 1 (used only as a mutation)
ExportRowOneDerived(cols, row) ==
  LET row_list   == [k \in 1..Len(cols) |-> row[cols[k]]]
      insert_idx == ListIndex(cols, "page_number") + 1
      page_num   == row_list[insert_idx]
  IN  ListInsert(row_list, insert_idx,
                 IF page_num # Null THEN page_num + 1 ELSE Null)

\* a data row export_to_csv writes for a fetched row
ExportRow(cols, row) ==
  LET row_list   == [k \in 1..Len(cols) |-> row[cols[k]]]
      insert_idx == ListIndex(cols, "page_number") + 1
      page_num   == row_list[insert_idx]
  IN  ListInsert(ListInsert(row_list, insert_idx, page_num),
                 insert_idx + 1,
                 IF page_num # Null THEN page_num + 1 ELSE Null)

\* no output file written by the current command
NoFile == [written |-> FALSE, header |-> << >>, rows |-> << >>]

\* the file export_to_csv leaves: nothing when the table is empty
ExportFile(cols, table) ==
  LET rows == OrderByDocumentUrl(table)
  IN  IF rows = << >> THEN NoFile
      ELSE [written |-> TRUE,
            header  |-> ExportColumns(cols),
            rows    |-> [k \in 1..Len(rows) |-> ExportRow(cols, rows[k])]]

(* ------------------------------ the renderer -------------------------- *)
\* the href attribute of an element: an absolute document link, a relative
\* one ("/document/<doc>"), a link to something that is no document, or no
\* href at all
Hrefs ==
  [kind : {"absolute", "relative"}, doc : Urls]
    \cup {[kind |-> "other", doc |-> Null], [kind |-> "none", doc |-> Null]}

\* what a selector query may return in a crawl: up to MaxElems document links
ElementLists ==
  UNION {[1..n -> [kind : {"absolute"}, doc : Urls]] : n \in 0..MaxElems}

\* the text of an href: the absolute URL of document doc is the integer doc,
\* the relative path "/document/<doc>" the integer NumUrls + doc
HrefText(href) ==
  IF href.kind = "relative" THEN NumUrls + href.doc ELSE href.doc

\* a relative href used as it stands (used only as a mutation)
FullUrlUnresolved(href) == HrefText(href)

\* full_url: BASE_URL + href for an href starting with "/", else href
FullUrl(href) ==
  IF href.kind = "relative" THEN HrefText(href) - NumUrls ELSE HrefText(href)

RECURSIVE CollectLinks(_, _)
\* the for-loop of get_document_links over elements, appending to links
CollectLinks(elems, links) ==
  IF elems = << >> THEN links
  ELSE LET href == Head(elems)
           keep == /\ href.kind \in {"absolute", "relative"}
                   /\ \A k \in 1..Len(links) : links[k] # FullUrl(href)
       IN  CollectLinks(Tail(elems),
                        IF keep THEN Append(links, FullUrl(href)) ELSE links)

\* what the field helpers of scrape_document found on a document page: the
\* same text in every field
DocContents ==
  {[f \in ScrapedFields |-> v] : v \in Texts}

\* the metadata dict scrape_document returns
ScrapeDocument(document_url, content, now) ==
  [c \in ColumnSet \ {"page_number"} |->
     CASE c = "document_url" -> document_url
       [] c = "scraped_at"   -> now
       [] OTHER              -> content[c]]

\* the one-based page number attached (used only as a mutation)
WithPageOneIndexed(metadata, page_number) ==
  [c \in DOMAIN metadata \cup {"page_number"} |->
     IF c = "page_number" THEN page_number + 1 ELSE metadata[c]]

\* metadata["page_number"] = page_number
WithPageNumber(metadata, page_number) ==
  [c \in DOMAIN metadata \cup {"page_number"} |->
     IF c = "page_number" THEN page_number ELSE metadata[c]]

(* ------------------------------ the document page -------------------- *)
\* a section holds at most MaxPills pills, a document page at most MaxBlocks
\* sections
MaxPills == 2
MaxBlocks == 2

\* the text of an element that is empty once stripped
EmptyText == 0

\* the fields scrape_document reads with _get_text_safe, with _get_pill_list
\* and with _get_information_block
TextFields ==
  {"original_publication_date", "title", "credits", "text_body", "summary"}
PillFields ==
  {"authors", "associated_places", "subjects_discussed",
   "associated_people_orgs", "original_archive_title", "language", "donors"}
InfoFields ==
  {"source", "original_upload_date", "rights", "record_id",
   "original_classification"}

\* what find_element(selector) meets: an element with a text, or none (it
\* raises NoSuchElementException), or a renderer fault
Found(text) == [raises |-> FALSE, text |-> text]
Missing == [raises |-> TRUE, text |-> EmptyText]

\* a block without a heading the helpers look for
NoHeading == "none"

\* a .pill-block: its heading contains the title of field heading, and it
\* holds the pills whose names are pills
PillBlock(heading, pills) ==
  [class |-> "pill", heading |-> heading, pills |-> pills, text |-> Null,
   raises |-> FALSE]

\* an .information-block: its .sub-title contains the title of field
\* heading, and its .text div holds text (Null: it has no .text div)
InfoBlock(heading, text) ==
  [class |-> "information", heading |-> heading, pills |-> << >>,
   text |-> text, raises |-> FALSE]

\* a block on which every query raises
FaultyBlock(class) ==
  [class |-> class, heading |-> NoHeading, pills |-> << >>, text |-> Null,
   raises |-> TRUE]

\* the names of up to MaxPills pills, empty names among them
PillLists == UNION {[1..n -> Texts \cup {EmptyText}] : n \in 0..MaxPills}

\* the blocks of the document pages considered: author sections, source
\* blocks, blocks of other headings, faulty blocks
Blocks ==
  {PillBlock("authors", pills) : pills \in PillLists}
    \cup {InfoBlock("source", text) : text \in Texts \cup {EmptyText, Null}}
    \cup {PillBlock(NoHeading, << >>), InfoBlock(NoHeading, Null)}
    \cup {FaultyBlock(class) : class \in {"pill", "information"}}

BlockLists == UNION {[1..n -> Blocks] : n \in 0..MaxBlocks}

\* every text selector finds the text NumTexts
AllTextsFound == [f \in TextFields |-> Found(NumTexts)]

\* the document pages considered: pages without blocks on which one text
\* selector finds nothing, raises or finds an empty text, and pages with
\* blocks on which every text selector finds its text
DocumentPages ==
  {[texts |-> [f \in TextFields |-> IF f = odd THEN met ELSE Found(text)],
    blocks |-> << >>] :
     odd \in TextFields, met \in {Missing, Found(EmptyText)}, text \in Texts}
    \cup {[texts |-> AllTextsFound, blocks |-> blocks] : blocks \in BlockLists}

\* _get_text_safe(selector): the stripped text, None when it is empty or
\* when anything is raised
GetTextSafe(page, field) ==
  LET element == page.texts[field]
  IN  IF element.raises THEN Null
      ELSE IF element.text # EmptyText THEN element.text ELSE Null

NonEmpty(text) == text # EmptyText

RECURSIVE JsonDumps(_)
\* json.dumps(names): the list as one value, here the names as the digits of
\* a number of base NumTexts + 1
JsonDumps(names) ==
  IF names = << >> THEN 0
  ELSE JsonDumps(SubSeq(names, 1, Len(names) - 1)) * (NumTexts + 1)
         + names[Len(names)]

RECURSIVE PillListAborting(_, _)
\* a _get_pill_list that gives up at the first block that raises (used only
\* as a mutation)
PillListAborting(blocks, field) ==
  IF blocks = << >> THEN Null
  ELSE LET block == Head(blocks)
       IN  IF block.raises THEN Null
           ELSE IF block.heading = field /\ block.pills # << >>
             THEN LET names == SelectSeq(block.pills, NonEmpty)
                  IN  IF names # << >> THEN JsonDumps(names) ELSE Null
           ELSE PillListAborting(Tail(blocks), field)

RECURSIVE PillListFrom(_, _)
\* the block loop of _get_pill_list: "except: continue" on a block that
\* raises; on a block whose heading contains the title and that holds pills,
\* return their non-empty names, or None when there is none; else go on
PillListFrom(blocks, field) ==
  IF blocks = << >> THEN Null
  ELSE LET block == Head(blocks)
       IN  IF block.raises THEN PillListFrom(Tail(blocks), field)
           ELSE IF block.heading = field /\ block.pills # << >>
             THEN LET names == SelectSeq(block.pills, NonEmpty)
                  IN  IF names # << >> THEN JsonDumps(names) ELSE Null
           ELSE PillListFrom(Tail(blocks), field)

\* _get_pill_list(title) on the blocks ".pill-block, .information-block"
GetPillList(page, field) == PillListFrom(page.blocks, field)

RECURSIVE InformationFrom(_, _)
\* the block loop of _get_information_block over the .information-block
\* elements: "except: continue" on a block that raises, that has no
\* .sub-title or, its heading containing the title, no .text div; on a block
\* whose heading contains the title, return its text, or None when empty
InformationFrom(blocks, field) ==
  IF blocks = << >> THEN Null
  ELSE LET block == Head(blocks)
       IN  IF block.class # "information" \/ block.raises
             THEN InformationFrom(Tail(blocks), field)
           ELSE IF block.heading = field /\ block.text # Null
             THEN IF block.text # EmptyText THEN block.text ELSE Null
           ELSE InformationFrom(Tail(blocks), field)

\* _get_information_block(title)
GetInformationBlock(page, field) == InformationFrom(page.blocks, field)

\* the value scrape_document puts under key field
ExtractField(page, field) ==
  IF field \in TextFields THEN GetTextSafe(page, field)
  ELSE IF field \in PillFields THEN GetPillList(page, field)
  ELSE GetInformationBlock(page, field)

\* the number of selectors get_document_links tries
NumSelectors == 4

\* elements before any selector query has returned
Unbound == [bound |-> FALSE, list |-> << >>]

Bound(list) == [bound |-> TRUE, list |-> list]

(* ------------------------------ state --------------------------------- *)
VARIABLES
  documents,        \* table documents as this connection sees it
  completed_pages,  \* table completed_pages as this connection sees it
  disk_documents,   \* table documents as committed to the database file
  disk_completed,   \* table completed_pages as committed
  columns,          \* column order of table documents (cursor.description)
  driver,           \* self.driver: "None" or "Driver"
  pc,               \* where the running command stands
  runs,             \* scrape_range calls started so far
  clock,            \* what datetime.now() returns, read once per command
  start_page, end_page, page_num,   \* scrape_range's arguments and loop variable
  selector,         \* index of the selector get_document_links tries next
  elements,         \* the local variable elements of get_document_links
  document_links,   \* scrape_page's document_links
  item,             \* scrape_page's i
  metadata,         \* scrape_page's metadata
  csv_file,         \* what the running export_to_csv wrote
  rendered,         \* the page the browser shows, where a run is told it
  \* history, read by the properties only
  driver_log,       \* renderer calls of the current scrape_range: <<call, page, url>>
  link_faults,      \* <<page, call>>: the renderer raised in link collection
  item_log,         \* <<url, outcome>> of the items attempted on the current page
  page_result,      \* how the last scrape_page call ended
  at_page_start,    \* documents when the current page's processing began
  at_run_start,     \* both tables when the current scrape_range began
  run_outcome,      \* how the current scrape_range ended
  prev_run,         \* the scrape_range before: its outcome, and whether its range was this one
  last_payload      \* URL -> the metadata of the latest direct save_document
                    \* call for it, and whether it replaced another one

storeVars == <<documents, completed_pages, disk_documents, disk_completed>>
rangeVars == <<start_page, end_page, page_num>>
linkVars  == <<selector, elements>>
pageVars  == <<document_links, item, metadata>>
histVars  == <<driver_log, link_faults, item_log, page_result, at_page_start,
               at_run_start, run_outcome, prev_run>>
vars == <<storeVars, columns, rendered, driver, pc, runs, clock, rangeVars, linkVars,
          pageVars, csv_file, histVars, last_payload>>

NoResult == [page |-> Null, kind |-> "none"]
NoSnapshot == [documents |-> {}, completed_pages |-> {}]
NoRun == [same |-> FALSE, outcome |-> "none"]
\* the crawl is told no page beforehand: it draws what each query returns
NoPage == << >>

\* the state after WilsonArchiveScraper(db_path) on a new database file
InitCommon ==
  /\ documents = {} /\ completed_pages = {}
  /\ disk_documents = {} /\ disk_completed = {}
  /\ driver = "None"
  /\ pc = "idle"
  /\ runs = 0
  /\ clock = 1
  /\ start_page = 0 /\ end_page = 0 /\ page_num = 0
  /\ selector = 1 /\ elements = Unbound
  /\ document_links = << >> /\ item = 0 /\ metadata = << >>
  /\ csv_file = NoFile
  /\ driver_log = {} /\ link_faults = {} /\ item_log = << >>
  /\ page_result = NoResult
  /\ at_page_start = {}
  /\ at_run_start = NoSnapshot
  /\ run_outcome = "none"
  /\ prev_run = NoRun
  /\ last_payload = << >>

Init == InitCommon /\ columns = SchemaColumns /\ rendered = NoPage

(* ------------------------------ store calls --------------------------- *)
\* a connection that never commits (used only as a mutation)
CommitNothing(conn_table, disk_table) == disk_table

\* self.conn.commit(): the file takes what the connection wrote
Commit(conn_table, disk_table) == conn_table

\* save_document, seen from the outside: execute, commit, return
StoreSave(md) ==
  /\ pc = "idle"
  /\ documents' = InsertOrReplace(documents, SaveDocumentRow(md), "document_url")
  /\ disk_documents' = Commit(documents', disk_documents)
  /\ disk_completed' = Commit(completed_pages, disk_completed)
  /\ last_payload' =
       [u \in DOMAIN last_payload \cup {md["document_url"]} |->
          IF u # md["document_url"] THEN last_payload[u]
          ELSE [metadata |-> md,
                replaced |-> /\ u \in DOMAIN last_payload
                             /\ \/ last_payload[u].replaced
                                \/ last_payload[u].metadata # md]]
  /\ UNCHANGED <<completed_pages, columns, rendered, driver, pc, runs,
                 clock, rangeVars, linkVars, pageVars, csv_file, histVars>>

\* export_to_csv, called by main with --export
export_to_csv ==
  /\ pc = "idle"
  /\ csv_file' = ExportFile(columns, documents)
  /\ pc' = "exported"
  /\ UNCHANGED <<storeVars, columns, rendered, driver, runs, clock, rangeVars, linkVars,
                 pageVars, histVars, last_payload>>

\* get_stats, called by main with --stats: two SELECT COUNT(*)
get_stats ==
  /\ pc = "idle"
  /\ pc' = "exited"
  /\ UNCHANGED <<storeVars, columns, rendered, driver, runs, clock, rangeVars, linkVars,
                 pageVars, csv_file, histVars, last_payload>>

\* main's finally: scraper.close() drops what the connection never committed;
\* the next command opens the same file again
close ==
  /\ pc \in {"returned", "exited", "exported"}
  /\ documents' = disk_documents
  /\ completed_pages' = disk_completed
  /\ pc' = "idle"
  /\ csv_file' = NoFile
  /\ page_num' = 0
  /\ page_result' = NoResult
  /\ at_run_start' = NoSnapshot
  /\ prev_run' = NoRun
  /\ UNCHANGED <<disk_documents, disk_completed, columns, rendered, driver, runs,
                 clock, start_page, end_page, linkVars, pageVars, driver_log, link_faults,
                 item_log, at_page_start, run_outcome, last_payload>>

(* ------------------------------ the crawl ----------------------------- *)
\* what no step of a running scrape_range changes
crawlFrame == <<columns, rendered, csv_file, last_payload, runs, clock, start_page,
                end_page, at_run_start, prev_run>>

\* the locals of scrape_page and get_document_links, and what is recorded
\* about the page in hand
pageLocal == <<selector, elements, document_links, item, metadata, driver_log,
               link_faults, item_log, at_page_start>>

\* the call is over: its locals are gone, and with them the page's records
PageForgotten ==
  /\ selector' = 1 /\ elements' = Unbound
  /\ document_links' = << >> /\ item' = 0 /\ metadata' = << >>
  /\ driver_log' = {} /\ link_faults' = {}
  /\ item_log' = << >> /\ at_page_start' = {}

Logged(call, url) == driver_log \cup {<<call, page_num, url>>}

\* scrape_range(s, e) up to the page loop: _init_driver
scrape_range(s, e) ==
  /\ pc = "idle"
  /\ runs < MaxRuns
  /\ runs' = runs + 1
  /\ clock' = clock + 1
  /\ start_page' = s /\ end_page' = e /\ page_num' = s
  /\ prev_run' = [same |-> (runs > 0 /\ s = start_page /\ e = end_page),
                  outcome |-> run_outcome]
  /\ at_run_start' = [documents |-> documents,
                      completed_pages |-> completed_pages]
  /\ page_result' = NoResult
  /\ \/ /\ driver' = "Driver"
        /\ run_outcome' = "running"
        /\ pc' = "range_loop"
     \/ \* Driver(uc=True, headless=True) raises: nothing catches it
        /\ driver' = "None"
        /\ run_outcome' = "failed"
        /\ pc' = "returned"
  /\ UNCHANGED <<storeVars, columns, rendered, csv_file, last_payload, pageLocal>>

\* for page_num in range(start_page, end_page + 1), and what follows the loop
range_loop ==
  /\ pc = "range_loop"
  /\ page_result' = NoResult
  /\ IF page_num > end_page
       THEN /\ driver' = "None"          \* finally: _close_driver
            /\ run_outcome' = "completed"
            /\ pc' = "returned"
       ELSE /\ pc' = "scrape_page"
            /\ UNCHANGED <<driver, run_outcome>>
  /\ PageForgotten
  /\ UNCHANGED <<storeVars, page_num, crawlFrame>>

\* a page loop that goes on two pages further (used only as a mutation)
PageEndsSkipping(kind) ==
  /\ page_result' = [page |-> page_num, kind |-> kind]
  /\ page_num' = page_num + 2
  /\ pc' = "range_loop"
  /\ UNCHANGED <<driver, run_outcome>>

\* a page loop that tries the same page again (used only as a mutation)
PageEndsRetrying(kind) ==
  /\ page_result' = [page |-> page_num, kind |-> kind]
  /\ page_num' = page_num
  /\ pc' = "range_loop"
  /\ UNCHANGED <<driver, run_outcome>>

\* scrape_page returns, or raises an Exception the range loop catches: the
\* loop goes on with the next page number
PageEnds(kind) ==
  /\ page_result' = [page |-> page_num, kind |-> kind]
  /\ page_num' = page_num + 1
  /\ pc' = "range_loop"
  /\ UNCHANGED <<driver, run_outcome>>

\* a cancellation that skips "finally: _close_driver" (used only as a
\* mutation)
InterruptLeavingDriver ==
  /\ driver' = driver
  /\ run_outcome' = "interrupted"
  /\ pc' = "returned"
  /\ PageForgotten
  /\ UNCHANGED <<page_num, page_result>>

\* KeyboardInterrupt leaves scrape_page: both "except KeyboardInterrupt"
\* clauses of scrape_range (get_stats only reads), finally: _close_driver,
\* and scrape_range returns
Interrupt ==
  /\ driver' = "None"
  /\ run_outcome' = "interrupted"
  /\ pc' = "returned"
  /\ PageForgotten
  /\ UNCHANGED <<page_num, page_result>>

\* the step stays inside scrape_page
Within(next) ==
  /\ pc' = next
  /\ UNCHANGED <<driver, run_outcome, page_num, page_result>>

\* scrape_page: the entry check
scrape_page ==
  /\ pc = "scrape_page"
  /\ IF IsPageCompleted(completed_pages, page_num)
       THEN /\ PageEnds("skipped")
            /\ UNCHANGED pageLocal
       ELSE /\ Within("driver_get")
            /\ at_page_start' = documents
            /\ UNCHANGED <<selector, elements, document_links, item, metadata,
                           driver_log, link_faults, item_log>>
  /\ UNCHANGED <<storeVars, crawlFrame>>

\* get_document_links: self.driver.get(url); time.sleep(5)
driver_get ==
  /\ pc = "driver_get"
  /\ \/ /\ Within("find_elements")
        /\ driver_log' = Logged("get", Null)
        /\ UNCHANGED <<selector, elements, document_links, item, metadata,
                       link_faults, item_log, at_page_start>>
     \/ \* the renderer raises: scrape_range's "except Exception"
        /\ PageEnds("fault")
        /\ driver_log' = Logged("get", Null)
        /\ link_faults' = link_faults \cup {<<page_num, "get">>}
        /\ UNCHANGED <<selector, elements, document_links, item, metadata,
                       item_log, at_page_start>>
     \/ Interrupt
  /\ UNCHANGED <<storeVars, crawlFrame>>

\* a selector loop without its break: every selector is queried (used only
\* as a mutation)
NextSelectorNoBreak(found) ==
  IF selector = NumSelectors
    THEN Within("collect") /\ UNCHANGED selector
    ELSE Within("find_elements") /\ selector' = selector + 1

\* "for selector in selectors": on to the next selector, or out of the loop
NextSelector(found) ==
  IF found \/ selector = NumSelectors
    THEN Within("collect") /\ UNCHANGED selector
    ELSE Within("find_elements") /\ selector' = selector + 1

\* elements = self.driver.find_elements(...) returns list: break when it
\* is not empty
QueryReturns(list) ==
  /\ elements' = Bound(list)
  /\ NextSelector(list # << >>)
  /\ driver_log' = Logged("query", Null)
  /\ UNCHANGED link_faults

\* find_elements raises: "except: continue" takes whatever is raised,
\* KeyboardInterrupt too
QueryRaises(raised) ==
  /\ link_faults' = IF raised = "Exception"
                      THEN link_faults \cup {<<page_num, "query">>}
                      ELSE link_faults
  /\ driver_log' =
       IF raised = "Exception"
         THEN Logged("query", Null)
         ELSE Logged("query", Null)
                \cup {<<"interrupted_query", page_num, Null>>}
  /\ NextSelector(FALSE)
  /\ UNCHANGED elements

\* one turn of the selector loop: find_elements, then break or continue
find_elements ==
  /\ pc = "find_elements"
  /\ \/ \E list \in ElementLists : QueryReturns(list)
     \/ \E raised \in {"Exception", "KeyboardInterrupt"} : QueryRaises(raised)
  /\ UNCHANGED <<storeVars, crawlFrame, document_links, item, metadata,
                 item_log, at_page_start>>

\* get_document_links returns links
LinksReturned(links, raised) ==
  /\ Within("links")
  /\ document_links' = links
  /\ link_faults' = IF raised THEN link_faults \cup {<<page_num, "collect">>}
                    ELSE link_faults
  /\ selector' = 1 /\ elements' = Unbound
  /\ UNCHANGED <<item, metadata, item_log, at_page_start>>

\* the rest of get_document_links: "if not elements", the loop over the
\* elements, "except Exception", "return links"
collect ==
  /\ pc = "collect"
  /\ IF ~elements.bound
       THEN \* UnboundLocalError, taken by "except Exception": links is []
            /\ LinksReturned(<< >>, FALSE)
            /\ UNCHANGED driver_log
       ELSE IF elements.list = << >>
       THEN \* self.driver.page_source
            \/ \E raised \in BOOLEAN :
                 /\ LinksReturned(<< >>, raised)
                 /\ driver_log' = Logged("query", Null)
            \/ Interrupt
       ELSE \* element.get_attribute("href") for each element
            \/ /\ LinksReturned(CollectLinks(elements.list, << >>), FALSE)
               /\ driver_log' = Logged("query", Null)
            \/ \E k \in 1..Len(elements.list) :
                 \* it raises on element k
                 /\ LinksReturned(
                      CollectLinks(SubSeq(elements.list, 1, k - 1), << >>),
                      TRUE)
                 /\ driver_log' = Logged("query", Null)
            \/ Interrupt
  /\ UNCHANGED <<storeVars, crawlFrame>>

\* a scrape_page that returns from an empty page without marking it (used
\* only as a mutation)
links_unmarked ==
  /\ pc = "links"
  /\ IF document_links = << >>
       THEN PageEnds("empty") /\ UNCHANGED item
       ELSE Within("scrape_document") /\ item' = 1
  /\ UNCHANGED <<storeVars, crawlFrame, selector, elements, document_links,
                 metadata, driver_log, link_faults, item_log, at_page_start>>

\* scrape_page: "if not document_links"
links ==
  /\ pc = "links"
  /\ IF document_links = << >>
       THEN Within("mark_execute") /\ UNCHANGED item
       ELSE Within("scrape_document") /\ item' = 1
  /\ UNCHANGED <<storeVars, crawlFrame, selector, elements, document_links,
                 metadata, driver_log, link_faults, item_log, at_page_start>>

\* an item loop that gives the page up at the first item that faults (used
\* only as a mutation)
ItemEndsAborting(outcome) ==
  /\ item_log' = Append(item_log, <<document_links[item], outcome>>)
  /\ metadata' = << >>
  /\ IF item = Len(document_links) \/ outcome # "saved"
       THEN Within("mark_execute") /\ UNCHANGED item
       ELSE Within("scrape_document") /\ item' = item + 1
  /\ UNCHANGED <<selector, elements, document_links, link_faults,
                 at_page_start>>

\* the item loop goes on: to the next link, or past the last one
ItemEnds(outcome) ==
  /\ item_log' = Append(item_log, <<document_links[item], outcome>>)
  /\ metadata' = << >>
  /\ IF item = Len(document_links)
       THEN Within("mark_execute") /\ UNCHANGED item
       ELSE Within("scrape_document") /\ item' = item + 1
  /\ UNCHANGED <<selector, elements, document_links, link_faults,
                 at_page_start>>

\* scrape_document(doc_url) returns, the field helpers having found content;
\* metadata["page_number"] = page_number
DocumentScraped(content) ==
  /\ Within("save_execute")
  /\ metadata' = WithPageNumber(
                   ScrapeDocument(document_links[item], content, clock),
                   page_num)
  /\ driver_log' = Logged("get_document", document_links[item])
  /\ UNCHANGED <<selector, elements, document_links, item,
                 link_faults, item_log, at_page_start>>

\* scrape_document(doc_url); metadata["page_number"] = page_number
scrape_document ==
  /\ pc = "scrape_document"
  /\ \/ \E content \in DocContents : DocumentScraped(content)
     \/ \* driver.get raises: "except Exception" of the item loop
        /\ ItemEnds("fault")
        /\ driver_log' = Logged("get_document", document_links[item])
     \/ \* KeyboardInterrupt, raised again by the item loop
        Interrupt
  /\ UNCHANGED <<storeVars, crawlFrame>>

\* save_document: cursor.execute(INSERT OR REPLACE ...)
save_execute ==
  /\ pc = "save_execute"
  /\ \/ /\ documents' = InsertOrReplace(documents, SaveDocumentRow(metadata),
                                        "document_url")
        /\ Within("save_commit")
        /\ UNCHANGED pageLocal
     \/ \* the statement fails (sqlite3.Error): nothing is written
        /\ ItemEnds("fault")
        /\ UNCHANGED <<documents, driver_log>>
  /\ UNCHANGED <<completed_pages, disk_documents, disk_completed, crawlFrame>>

\* save_document: self.conn.commit(), return; then time.sleep(1)
save_commit ==
  /\ pc = "save_commit"
  /\ \/ /\ disk_documents' = Commit(documents, disk_documents)
        /\ disk_completed' = Commit(completed_pages, disk_completed)
        /\ \/ ItemEnds("saved") /\ UNCHANGED driver_log
           \/ Interrupt            \* KeyboardInterrupt in time.sleep(1)
     \/ \* commit raises (sqlite3.OperationalError, the file being locked by
        \* a reader): the write stays pending in the connection, and the
        \* item loop's "except Exception" goes on to the next link
        /\ ItemEnds("commit_fault")
        /\ UNCHANGED <<disk_documents, disk_completed, driver_log>>
     \/ \* KeyboardInterrupt between execute and commit
        /\ Interrupt
        /\ UNCHANGED <<disk_documents, disk_completed>>
  /\ UNCHANGED <<documents, completed_pages, crawlFrame>>

\* mark_page_completed: cursor.execute(INSERT OR REPLACE ...)
mark_execute ==
  /\ pc = "mark_execute"
  /\ completed_pages' = InsertOrReplace(completed_pages,
                                        CompletedRow(page_num, clock),
                                        "page_number")
  /\ Within("mark_commit")
  /\ UNCHANGED <<documents, disk_documents, disk_completed, pageLocal, crawlFrame>>

\* mark_page_completed: self.conn.commit(), return; scrape_page returns
mark_commit ==
  /\ pc = "mark_commit"
  /\ \/ /\ disk_documents' = Commit(documents, disk_documents)
        /\ disk_completed' = Commit(completed_pages, disk_completed)
        /\ PageEnds(IF document_links = << >> THEN "empty" ELSE "scraped")
        /\ UNCHANGED pageLocal
     \/ \* KeyboardInterrupt between execute and commit
        /\ Interrupt
        /\ UNCHANGED <<disk_documents, disk_completed>>
  /\ UNCHANGED <<documents, completed_pages, crawlFrame>>

\* the process is killed inside scrape_range: what was not committed is gone,
\* and the next command opens the same file again
Crash ==
  /\ pc \notin {"idle", "returned", "exited", "exported"}
  /\ documents' = disk_documents
  /\ completed_pages' = disk_completed
  /\ driver' = "None"
  /\ run_outcome' = "interrupted"
  /\ pc' = "idle"
  /\ PageForgotten
  /\ page_result' = NoResult
  /\ page_num' = 0
  /\ at_run_start' = NoSnapshot
  /\ prev_run' = NoRun
  /\ UNCHANGED <<disk_documents, disk_completed, clock, columns, rendered, csv_file,
                 last_payload, runs, start_page, end_page>>

Next ==
  \/ \E s \in Pages, e \in Pages : scrape_range(s, e)
  \/ range_loop
  \/ scrape_page
  \/ driver_get
  \/ find_elements
  \/ collect
  \/ links
  \/ scrape_document
  \/ save_execute
  \/ save_commit
  \/ mark_execute
  \/ mark_commit
  \/ Crash
  \/ export_to_csv
  \/ get_stats
  \/ close

Spec == Init /\ [][Next]_vars

\* a step of a running scrape_range
RunStep ==
  \/ range_loop
  \/ scrape_page
  \/ driver_get
  \/ find_elements
  \/ collect
  \/ links
  \/ scrape_document
  \/ save_execute
  \/ save_commit
  \/ mark_execute
  \/ mark_commit

\* every renderer and store call returns or raises, and the interpreter runs
\* the statement that follows: a running scrape_range takes its next step
SpecLive == Spec /\ WF_vars(RunStep)

(* ------------------- the store and the export on their own ------------ *)
\* the metadata dicts handed to save_document: every column, every column
\* but page_number (what scrape_document returns), or the two keys
\* save_document insists on
PayloadShapes ==
  {ColumnSet, ColumnSet \ {"page_number"}, {"document_url", "scraped_at"}}

Payloads ==
  {[c \in shape |->
      CASE c = "document_url" -> u
        [] c = "page_number"  -> p
        [] c = "scraped_at"   -> 1
        [] OTHER              -> v] :
     shape \in PayloadShapes, u \in Urls, p \in Pages, v \in Texts \cup {Null}}

\* a database file made by this code, or by the version before page_number
InitStore ==
  InitCommon /\ columns \in {SchemaColumns, LegacyColumns} /\ rendered = NoPage

NextStore ==
  \/ \E md \in Payloads : StoreSave(md)
  \/ export_to_csv
  \/ get_stats
  \/ close

SpecStore == InitStore /\ [][NextStore]_vars

(* ------------------- get_document_links on a given search page -------- *)
\* what one selector does on a rendered page: the query raises, or it returns
\* the elements the selector matches
Raising == [raises |-> TRUE, list |-> << >>]
Matching(list) == [raises |-> FALSE, list |-> list]

\* up to MaxElems elements, with any href
HrefLists == UNION {[1..n -> Hrefs] : n \in 0..MaxElems}

\* what the selectors after the first matching one match
LaterLists == {<< >>, <<[kind |-> "absolute", doc |-> NumUrls]>>}

\* rendered search pages: the selectors before first match nothing, selector
\* first matches list, the selectors after it match later, and for those in
\* raising the query raises
SearchPages ==
  {[sel \in 1..NumSelectors |->
      IF sel \in raising THEN Raising
      ELSE IF sel < first THEN Matching(<< >>)
      ELSE IF sel = first THEN Matching(list)
      ELSE Matching(later)] :
     first \in 1..NumSelectors, list \in HrefLists, later \in LaterLists,
     raising \in SUBSET (1..NumSelectors)}

\* scrape_page(0) of a first scrape_range(0, 0), after self.driver.get(url)
\* has loaded a search page
InitLinks ==
  /\ documents = {} /\ completed_pages = {}
  /\ disk_documents = {} /\ disk_completed = {}
  /\ columns = SchemaColumns
  /\ rendered \in SearchPages
  /\ driver = "Driver"
  /\ pc = "find_elements"
  /\ runs = 1
  /\ clock = 2
  /\ start_page = 0 /\ end_page = 0 /\ page_num = 0
  /\ selector = 1 /\ elements = Unbound
  /\ document_links = << >> /\ item = 0 /\ metadata = << >>
  /\ csv_file = NoFile
  /\ driver_log = {<<"get", 0, Null>>} /\ link_faults = {} /\ item_log = << >>
  /\ page_result = NoResult
  /\ at_page_start = {}
  /\ at_run_start = NoSnapshot
  /\ run_outcome = "running"
  /\ prev_run = NoRun
  /\ last_payload = << >>

\* one turn of the selector loop on the rendered page
find_elements_rendered ==
  /\ pc = "find_elements"
  /\ IF rendered[selector].raises
       THEN \E raised \in {"Exception", "KeyboardInterrupt"} :
              QueryRaises(raised)
       ELSE QueryReturns(rendered[selector].list)
  /\ UNCHANGED <<storeVars, crawlFrame, document_links, item, metadata,
                 item_log, at_page_start>>

NextLinks ==
  \/ find_elements_rendered
  \/ collect

SpecLinks == InitLinks /\ [][NextLinks]_vars

(* ------------------- scrape_document on a given document page --------- *)
\* scrape_page(0) of a first scrape_range(0, 0): the page lists one document,
\* and self.driver.get(document_url) has loaded its page
InitDocument ==
  /\ documents = {} /\ completed_pages = {}
  /\ disk_documents = {} /\ disk_completed = {}
  /\ columns = SchemaColumns
  /\ rendered \in DocumentPages
  /\ driver = "Driver"
  /\ pc = "scrape_document"
  /\ runs = 1
  /\ clock = 2
  /\ start_page = 0 /\ end_page = 0 /\ page_num = 0
  /\ selector = 1 /\ elements = Unbound
  /\ document_links = <<NumUrls>> /\ item = 1 /\ metadata = << >>
  /\ csv_file = NoFile
  /\ driver_log = {<<"get", 0, Null>>, <<"query", 0, Null>>}
  /\ link_faults = {} /\ item_log = << >>
  /\ page_result = NoResult
  /\ at_page_start = {}
  /\ at_run_start = NoSnapshot
  /\ run_outcome = "running"
  /\ prev_run = NoRun
  /\ last_payload = << >>

\* scrape_document on the rendered page: every field by its helper
scrape_document_rendered ==
  /\ pc = "scrape_document"
  /\ DocumentScraped([f \in ScrapedFields |-> ExtractField(rendered, f)])
  /\ UNCHANGED <<storeVars, crawlFrame>>

NextDocument ==
  \/ scrape_document_rendered
  \/ save_execute
  \/ save_commit

SpecDocument == InitDocument /\ [][NextDocument]_vars

(* ------------------------------ C7 ------------------------------------ *)
\* the row a payload must leave: its fields, NULL for the missing ones
PayloadRow(md) ==
  [c \in ColumnSet |-> IF c \in DOMAIN md THEN md[c] ELSE Null]

\* C7: after any sequence of save_document calls the documents table holds at
\* most one record per document_url, a record for exactly the URLs saved, and
\* each equals field for field the payload of the latest call for its URL,
\* with NULL in the fields that payload lacks.
UpsertLastWriteWins ==
  /\ \A r1 \in documents, r2 \in documents :
       r1.document_url = r2.document_url => r1 = r2
  /\ {r.document_url : r \in documents} = DOMAIN last_payload
  /\ \A u \in DOMAIN last_payload :
       PayloadRow(last_payload[u].metadata) \in documents
  /\ disk_documents = documents

\* a URL saved twice with different payloads, the later one lacking fields
\* the table holds as NULL, beside the record of another URL
UpsertReplacedWitness ==
  /\ Cardinality(documents) = 2
  /\ \E u \in DOMAIN last_payload :
       /\ last_payload[u].replaced
       /\ DOMAIN last_payload[u].metadata = {"document_url", "scraped_at"}
       /\ \E r \in documents : r.document_url = u /\ r.title = Null

(* ------------------------------ C8 ------------------------------------ *)
\* the cell of column name in an exported data row (the derived cells come
\* after page_number, which no column named here follows)
ExportedUrl(row) == row[ListIndex(ExportColumns(columns), "document_url") + 1]
ExportedPage(row) == row[ListIndex(ExportColumns(columns), "page_number") + 1]

\* (page number, URL) of a before b, a NULL page number before any other; the
\* documents table of this code stores no position within the page
PageUrlBefore(a, b) ==
  \/ ExportedPage(a) = Null /\ ExportedPage(b) # Null
  \/ /\ ExportedPage(a) # Null /\ ExportedPage(b) # Null
     /\ ExportedPage(a) < ExportedPage(b)
  \/ /\ ExportedPage(a) = ExportedPage(b)
     /\ ExportedUrl(a) <= ExportedUrl(b)

\* C8 as claimed: the exported records are sorted by (page number, position
\* within page, URL), NULL page numbers first.
ExportSortedByPage ==
  csv_file.written =>
    \A i \in 1..Len(csv_file.rows), j \in 1..Len(csv_file.rows) :
      i < j => PageUrlBefore(csv_file.rows[i], csv_file.rows[j])

\* C8 as amended: the exported records are sorted ascending by document_url
\* alone.
ExportSortedByUrl ==
  csv_file.written =>
    \A i \in 1..Len(csv_file.rows), j \in 1..Len(csv_file.rows) :
      i < j => ExportedUrl(csv_file.rows[i]) < ExportedUrl(csv_file.rows[j])

\* an export of two records whose page numbers descend
ExportOrderWitness ==
  /\ csv_file.written
  /\ Len(csv_file.rows) = 2
  /\ ExportedPage(csv_file.rows[1]) = 1
  /\ ExportedPage(csv_file.rows[2]) = 0

(* ------------------------------ C9 ------------------------------------ *)
\* 1-based place of page_number among the stored columns
PageNumberAt == ListIndex(columns, "page_number") + 1

\* C9 as claimed: header and rows have one cell more than the stored schema,
\* and the cell right after page_number is page number + 1, or NULL.
ExportOneDerivedColumn ==
  csv_file.written =>
    /\ Len(csv_file.header) = Len(columns) + 1
    /\ \A k \in 1..Len(csv_file.rows) :
         LET row == csv_file.rows[k]
         IN  /\ Len(row) = Len(columns) + 1
             /\ row[PageNumberAt + 1] =
                  IF row[PageNumberAt] = Null THEN Null
                  ELSE row[PageNumberAt] + 1

\* C9 as amended: header and rows have two cells more than the stored
\* schema; right after page_number comes page_zero_indexed, a copy of the
\* stored page number, and after that page_one_indexed, page number + 1 or
\* NULL; the other cells are the stored columns in their order.
ExportTwoDerivedColumns ==
  csv_file.written =>
    /\ Len(csv_file.header) = Len(columns) + 2
    /\ csv_file.header[PageNumberAt + 1] = "page_zero_indexed"
    /\ csv_file.header[PageNumberAt + 2] = "page_one_indexed"
    /\ \A c \in 1..Len(columns) :
         csv_file.header[IF c <= PageNumberAt THEN c ELSE c + 2] = columns[c]
    /\ \A k \in 1..Len(csv_file.rows) :
         LET row == csv_file.rows[k]
         IN  /\ Len(row) = Len(columns) + 2
             /\ row[PageNumberAt + 1] = row[PageNumberAt]
             /\ row[PageNumberAt + 2] =
                  IF row[PageNumberAt] = Null THEN Null
                  ELSE row[PageNumberAt] + 1
             /\ \E r \in documents : \A c \in 1..Len(columns) :
                  row[IF c <= PageNumberAt THEN c ELSE c + 2] = r[columns[c]]

\* an export, from a store whose page_number column comes last, of a record
\* with page number 1 and a record without page number
ExportDerivedWitness ==
  /\ csv_file.written
  /\ columns = LegacyColumns
  /\ \E k \in 1..Len(csv_file.rows) :
       csv_file.rows[k][PageNumberAt] = 1 /\ csv_file.rows[k][PageNumberAt + 2] = 2
  /\ \E k \in 1..Len(csv_file.rows) :
       csv_file.rows[k][PageNumberAt] = Null
         /\ csv_file.rows[k][PageNumberAt + 2] = Null

(* ------------------------------ the crawl's claims -------------------- *)
HasMarker(table, page) == \E r \in table : r.page_number = page
MarkedPages(table) == {r.page_number : r \in table}
UrlsOf(table) == {r.document_url : r \in table}
RecordsOf(table, url) == {r \in table : r.document_url = url}

(* ------------------------------ C1 ------------------------------------ *)
\* C1: scrape_page(p) on a page that has a completion marker returns at once:
\* the step that enters it is the step that leaves it, no renderer call is
\* made, and both tables, marker timestamps included, stay as they are.
CompletedPageSkipped ==
  [][(pc = "scrape_page" /\ HasMarker(completed_pages, page_num))
       => /\ pc' \in {"range_loop", "idle"}
          /\ driver_log' = driver_log
          /\ UNCHANGED <<documents, completed_pages, disk_documents,
                         disk_completed>>]_vars

\* scrape_page has just skipped a page marked by an earlier scrape_range
CompletedPageSkippedWitness ==
  /\ pc = "range_loop"
  /\ page_result.kind = "skipped"
  /\ \E r \in completed_pages :
       r.page_number = page_result.page /\ r.completed_at < clock

(* ------------------------------ C2 ------------------------------------ *)
\* this scrape_range and the one before it ran the same range to its end
SecondOfTwoRuns ==
  /\ pc \notin {"idle", "exited", "exported"}
  /\ run_outcome \in {"running", "completed"}
  /\ prev_run.same
  /\ prev_run.outcome = "completed"

\* C2 as claimed: the second of two scrape_range calls over the same range
\* ends with the item URLs and the marked pages the first one left.
RangeTwiceChangesNothing ==
  (SecondOfTwoRuns /\ pc = "returned") =>
    /\ UrlsOf(documents) = UrlsOf(at_run_start.documents)
    /\ MarkedPages(completed_pages) = MarkedPages(at_run_start.completed_pages)

\* C2 as amended: the second call makes no renderer call for a page the first
\* one completed and keeps every marker and item URL of the first; when the
\* first completed every page of the range, the second leaves both tables as
\* they were. A page the first left unmarked is attempted again.
RangeTwiceSkipsCompleted ==
  SecondOfTwoRuns =>
    /\ \A call \in driver_log :
         ~HasMarker(at_run_start.completed_pages, call[2])
    /\ at_run_start.completed_pages \subseteq completed_pages
    /\ UrlsOf(at_run_start.documents) \subseteq UrlsOf(documents)
    /\ (\A p \in start_page..end_page :
          HasMarker(at_run_start.completed_pages, p))
         => /\ documents = at_run_start.documents
            /\ completed_pages = at_run_start.completed_pages
            /\ driver_log = {}

\* a second run over pages 0..1 that found page 0 completed and page 1 not,
\* and has ended with both marked
RangeTwiceWitness ==
  /\ SecondOfTwoRuns /\ pc = "returned" /\ run_outcome = "completed"
  /\ start_page = 0 /\ end_page = 1
  /\ MarkedPages(at_run_start.completed_pages) = {0}
  /\ MarkedPages(completed_pages) = {0, 1}

(* ------------------------------ C3 ------------------------------------ *)
\* this scrape_range resumes, over the same range, one that was stopped
ResumedRun ==
  /\ pc \notin {"idle", "exited", "exported"}
  /\ run_outcome = "running"
  /\ prev_run.same
  /\ prev_run.outcome = "interrupted"

\* the stopped run committed a record for url (its timestamps are clock - 1)
PersistedByStoppedRun(url) ==
  \E r \in at_run_start.documents :
    r.document_url = url /\ r.scraped_at = clock - 1

\* C3 as claimed: the resumed run navigates to no document URL whose record
\* the stopped run had committed.
ResumeRefetchesNoDocument ==
  ResumedRun =>
    \A call \in driver_log :
      call[1] = "get_document" => ~PersistedByStoppedRun(call[3])

\* C3 as amended: the resumed run makes no renderer call for a page that has
\* a completion marker; a document the stopped run committed is navigated to
\* again only for a page that run left unmarked.
ResumeRefetchesNoCompletedPage ==
  ResumedRun =>
    \A call \in driver_log :
      ~HasMarker(at_run_start.completed_pages, call[2])

\* the resumed run is back on a document the stopped run had committed,
\* having skipped a page that run completed
ResumeWitness ==
  /\ ResumedRun
  /\ at_run_start.completed_pages # {}
  /\ \E call \in driver_log :
       call[1] = "get_document" /\ PersistedByStoppedRun(call[3])

(* ------------------------------ C4 ------------------------------------ *)
\* C4 as claimed: when the renderer raised while the links of page p were
\* collected, scrape_page(p) ends with p unmarked (and no later step removes
\* or adds the marker of p in this run), and the loop is at p + 1.
LinkFaultLeavesPageUnmarked ==
  (pc = "range_loop" /\ page_result.kind # "none" /\ link_faults # {}) =>
    /\ ~HasMarker(completed_pages, page_result.page)
    /\ page_num = page_result.page + 1

(* ------------------------------ C5 ------------------------------------ *)
\* C5 as claimed: when scrape_page ends on a page with links, every link was
\* attempted, in order, whatever faulted; the page has its marker; every item
\* that did not fault has its record, with this page number; every item whose
\* extraction or persistence faulted has the records it had when the page
\* began, or none.
PartialPageIsolation ==
  (pc = "range_loop" /\ page_result.kind = "scraped") =>
    /\ HasMarker(disk_completed, page_result.page)
    /\ Len(item_log) = Len(document_links)
    /\ \A k \in 1..Len(item_log) :
         LET url == item_log[k][1]
         IN  /\ url = document_links[k]
             /\ item_log[k][2] = "saved" =>
                  \E r \in disk_documents :
                    r.document_url = url /\ r.page_number = page_result.page
             /\ item_log[k][2] # "saved" =>
                  RecordsOf(disk_documents, url) = RecordsOf(at_page_start, url)

(* ------------------------------ C6 ------------------------------------ *)
\* C6: the items are processed only for a page with links, and when
\* scrape_page ends on a page whose link list was empty the page has its
\* marker, no document was navigated to and no record was added or changed.
EmptyPageMarked ==
  /\ pc \in {"scrape_document", "save_execute", "save_commit"}
       => document_links # << >>
  /\ (pc = "range_loop" /\ page_result.kind = "empty") =>
       /\ HasMarker(disk_completed, page_result.page)
       /\ \A call \in driver_log : call[1] # "get_document"
       /\ documents = at_page_start
       /\ disk_documents = at_page_start

\* scrape_page has ended on a page without links, in a store with records
EmptyPageWitness ==
  /\ pc = "range_loop" /\ page_result.kind = "empty"
  /\ document_links = << >>
  /\ documents # {}
  /\ HasMarker(completed_pages, page_result.page)

InPageLoop ==
  pc \in {"range_loop", "scrape_page", "driver_get", "find_elements",
          "collect", "links", "scrape_document", "save_execute",
          "save_commit", "mark_execute", "mark_commit"}

\* C11: the driver is held at every point of the page loop and at no other
\* point; it is acquired only by the step that enters scrape_range and
\* released only by a step that leaves it, so once per call each; whichever
\* way scrape_range has ended (range done, cancelled, Driver() failed) the
\* handle is None.
DriverOwnership ==
  /\ [](InPageLoop <=> driver = "Driver")
  /\ [][/\ ((driver = "None" /\ driver' = "Driver")
              => (pc = "idle" /\ pc' = "range_loop"))
         /\ ((driver = "Driver" /\ driver' = "None")
              => (InPageLoop /\ pc' \in {"returned", "idle"}))]_vars

\* scrape_range has returned after a cancellation inside the second page of
\* its range, and the handle is None
DriverReleasedWitness ==
  /\ pc = "returned" /\ run_outcome = "interrupted"
  /\ page_num = end_page /\ start_page < end_page
  /\ driver = "None"

(* ------------------------------ C12 ----------------------------------- *)
\* C12 as claimed: once a KeyboardInterrupt was delivered during the
\* processing of a page, even inside a selector query, no step of the page
\* loop follows: scrape_range is on its way out.
StopSignalPropagates ==
  (\E call \in driver_log : call[1] = "interrupted_query") => ~InPageLoop

(* ------------------------------ C13 ----------------------------------- *)
\* C13 as claimed: scrape_range stops from inside the item loop of a page
\* only with the last link of the page in hand: a stop signal that arrives
\* earlier is acted on after every remaining link was attempted.
StopAfterRemainingLinks ==
  [][(/\ pc \in {"scrape_document", "save_execute", "save_commit"}
      /\ pc' = "returned")
       => item = Len(document_links)]_vars

(* ------------------------------ C14 ----------------------------------- *)
\* C14: from the entry check of scrape_page to the end of its item loop the
\* page in hand has no marker; a marker is written only by mark_page_completed
\* at the end of scrape_page, for the page in hand, stamped now, when
\* get_document_links has returned (its driver.get did not raise) and every
\* link it returned has been attempted, in order, saved or faulted. (The only
\* other change to the table a connection sees is the loss of an uncommitted
\* marker when the process ends.)
MarkerAfterItems ==
  /\ [](pc \in {"driver_get", "find_elements", "collect", "links",
                "scrape_document", "save_execute", "save_commit",
                "mark_execute"}
          => ~HasMarker(completed_pages, page_num))
  /\ [][completed_pages' # completed_pages
          => \/ pc' = "idle"
             \/ /\ pc = "mark_execute"
                /\ completed_pages' =
                     completed_pages \cup {CompletedRow(page_num, clock)}
                /\ <<"get", page_num, Null>> \in driver_log
                /\ <<page_num, "get">> \notin link_faults
                /\ Len(item_log) = Len(document_links)
                /\ \A k \in 1..Len(item_log) :
                     /\ item_log[k][1] = document_links[k]
                     /\ item_log[k][2] \in {"saved", "fault", "commit_fault"}]_vars

\* the marker of a page of two links is being committed: the first item
\* faulted, the second was saved
MarkerAfterItemsWitness ==
  /\ pc = "mark_commit"
  /\ HasMarker(completed_pages, page_num)
  /\ ~HasMarker(disk_completed, page_num)
  /\ Len(document_links) = 2
  /\ item_log[1][2] = "fault" /\ item_log[2][2] = "saved"

(* ------------------------------ C15 ----------------------------------- *)
\* a scrape_page call is under way
InScrapePage == InPageLoop /\ pc # "range_loop"

\* C15: the page in hand lies in start_page..end_page; the loop variable is
\* start_page before the first page and goes up by exactly one, at the step
\* that ends a scrape_page call and at no other step of a run; a page starts
\* only from the loop head, that is after the call before it has ended; and a
\* run that reaches the end of its range has gone past end_page.
SequentialPages ==
  /\ [](/\ InScrapePage => page_num \in start_page..end_page
        /\ pc = "range_loop" =>
             page_num = IF page_result.kind = "none" THEN start_page
                        ELSE page_result.page + 1
        /\ (pc = "returned" /\ run_outcome = "completed") =>
             page_num = IF start_page > end_page THEN start_page
                        ELSE end_page + 1)
  /\ [][/\ (page_num' # page_num /\ pc # "idle" /\ pc' # "idle")
             => (InScrapePage /\ pc' = "range_loop"
                   /\ page_num' = page_num + 1)
        /\ (pc' = "scrape_page" /\ pc # "scrape_page")
             => (pc = "range_loop" /\ page_num' = page_num)]_vars

\* the second page of the range starts, the first having been processed and
\* marked by this run
SequentialPagesWitness ==
  /\ pc = "scrape_page"
  /\ start_page = 0 /\ end_page = 1 /\ page_num = 1
  /\ \E r \in disk_completed : r.page_number = 0 /\ r.completed_at = clock

(* ------------------------------ C16 ----------------------------------- *)
\* the selectors that match at least one element of the rendered page
MatchingSelectors ==
  {k \in 1..NumSelectors : ~rendered[k].raises /\ rendered[k].list # << >>}

\* the first of them in priority order
FirstMatching == CHOOSE k \in MatchingSelectors : \A j \in MatchingSelectors : k <= j

\* C16: the selector loop reaches a selector only past selectors that matched
\* nothing; it ends with the elements of the first selector that matches, or
\* with none when no selector matches; and every link get_document_links
\* returns is the href of an element of that first selector.
FallbackPrecedence ==
  /\ pc = "find_elements" =>
       \A k \in 1..(selector - 1) : k \notin MatchingSelectors
  /\ pc = "collect" =>
       IF MatchingSelectors = {} THEN elements.list = << >>
       ELSE /\ selector = FirstMatching
            /\ elements = Bound(rendered[FirstMatching].list)
  /\ pc = "links" =>
       IF MatchingSelectors = {} THEN document_links = << >>
       ELSE \A j \in 1..Len(document_links) :
              \E i \in 1..Len(rendered[FirstMatching].list) :
                rendered[FirstMatching].list[i].doc = document_links[j]

\* the loop has ended on the second selector, the first having matched
\* nothing, while a later selector matches an element the second does not
FallbackWitness ==
  /\ pc = "collect"
  /\ MatchingSelectors # {} /\ FirstMatching = 2
  /\ 3 \in MatchingSelectors
  /\ \E i \in 1..Len(rendered[3].list) :
       \A j \in 1..Len(rendered[2].list) :
         rendered[2].list[j].doc # rendered[3].list[i].doc
  /\ elements = Bound(rendered[2].list)

(* ------------------------------ C17 ----------------------------------- *)
\* the elements get_document_links reads the href of
MatchedElements ==
  IF MatchingSelectors = {} THEN << >> ELSE rendered[FirstMatching].list

\* the href is there and contains "/document/"
IsDocumentHref(href) == href.kind \in {"absolute", "relative"}

\* where, among the matched elements, the document url is linked first
FirstAt(url) ==
  CHOOSE k \in 1..Len(MatchedElements) :
    /\ IsDocumentHref(MatchedElements[k]) /\ MatchedElements[k].doc = url
    /\ \A m \in 1..(k - 1) :
         ~(IsDocumentHref(MatchedElements[m]) /\ MatchedElements[m].doc = url)

\* reading the page source or an href raised
CollectFaulted == <<page_num, "collect">> \in link_faults

SectionsOf(field) ==
  {k \in 1..Len(rendered.blocks) :
     ~rendered.blocks[k].raises /\ rendered.blocks[k].heading = field}

\* the first of them
FirstSection(field) ==
  CHOOSE k \in SectionsOf(field) : \A j \in SectionsOf(field) : k <= j

\* the tag names of section k, in document order
TagNames(k) == SelectSeq(rendered.blocks[k].pills, NonEmpty)

\* C18 as claimed: _get_pill_list(title) returns the tag names of the first
\* section whose heading contains title, and null when that section holds no
\* tags; no later matching section is consulted.
FirstSectionWins ==
  (pc = "save_execute" /\ SectionsOf("authors") # {}) =>
    metadata["authors"] =
      IF TagNames(FirstSection("authors")) = << >> THEN Null
      ELSE JsonDumps(TagNames(FirstSection("authors")))

(* ------------------------------ C19 ----------------------------------- *)
\* a block whose queries do not raise
Sound(block) == ~block.raises

\* the rendered document page without the blocks whose queries raise
SoundPage ==
  [texts |-> rendered.texts, blocks |-> SelectSeq(rendered.blocks, Sound)]

\* what a field is expected to hold: for a text field the stripped text of
\* its element, null when the query raised or the text is empty; for another
\* field what its helper finds on the page without the raising blocks
Expected(field) ==
  IF field \in TextFields
    THEN IF rendered.texts[field].raises
              \/ rendered.texts[field].text = EmptyText
           THEN Null
           ELSE rendered.texts[field].text
    ELSE ExtractField(SoundPage, field)

\* a query of the helper of field raised: the query of its text selector, or
\* a query on the first block the helper goes through
QueryFaulted(field) ==
  IF field \in TextFields THEN rendered.texts[field].raises
  ELSE /\ rendered.blocks # << >>
       /\ rendered.blocks[1].raises
       /\ field \in InfoFields => rendered.blocks[1].class = "information"

\* C19 as claimed: a field whose query raised is null in the metadata
\* scrape_document returns.
FaultedFieldIsNull ==
  pc = "save_execute" =>
    \A field \in ScrapedFields : QueryFaulted(field) => metadata[field] = Null

\* C19 as amended: scrape_document returns a value for every field whatever
\* raised; a text field whose query raised is null; a block whose queries
\* raise is passed over, every field holding what its helper finds on the
\* other blocks; and the record save_document has committed holds these
\* values.
FieldFaultsLocal ==
  /\ pc = "save_execute" =>
       /\ DOMAIN metadata = ColumnSet
       /\ \A field \in ScrapedFields : metadata[field] = Expected(field)
  /\ (pc = "mark_execute" /\ item_log = <<<<document_links[1], "saved">>>>) =>
       \E r \in disk_documents :
         /\ r.document_url = document_links[1]
         /\ \A field \in ScrapedFields : r[field] = Expected(field)

\* the queries on the first block raised, the second block is an author
\* section: the record committed holds its names, and the text fields
FieldFaultsWitness ==
  /\ pc = "mark_execute" /\ item_log = <<<<document_links[1], "saved">>>>
  /\ Len(rendered.blocks) = 2
  /\ rendered.blocks[1].raises
  /\ rendered.blocks[2] = PillBlock("authors", <<NumTexts>>)
  /\ \E r \in disk_documents :
       /\ r.authors = JsonDumps(<<NumTexts>>)
       /\ r.source = Null
       /\ \A field \in TextFields : r[field] = NumTexts

(* ------------------------------ C20 ----------------------------------- *)
\* C20: no step of any command removes an item record or a completion marker
\* from the store file or rewrites a marker of it; the same holds of what
\* the open connection sees, up to the end of the command (which drops what
\* was never committed); and export_to_csv and get_stats leave both tables as
\* they are.
StoreMonotone ==
  [][/\ UrlsOf(disk_documents) \subseteq UrlsOf(disk_documents')
     /\ disk_completed \subseteq disk_completed'
     /\ pc' # "idle" =>
          /\ UrlsOf(documents) \subseteq UrlsOf(documents')
          /\ completed_pages \subseteq completed_pages'
     /\ (pc = "idle" /\ pc' \in {"exited", "exported"})
          => UNCHANGED storeVars]_vars

\* a later run has written again the record of a document an earlier run
\* stored, and the file still holds a marker of the earlier run
StoreMonotoneWitness ==
  /\ \E r \in disk_documents :
       /\ r.scraped_at = clock
       /\ \E q \in at_run_start.documents :
            q.document_url = r.document_url /\ q.scraped_at < clock
  /\ \E m \in disk_completed : m.completed_at < clock

(* ------------------------------ C21 ----------------------------------- *)
\* scrape_page is in its item loop, or past it
InItemLoop ==
  pc \in {"scrape_document", "save_execute", "save_commit", "mark_execute",
          "mark_commit"}

\* the record the file holds for the link at position k of the page in hand
SavedAt(k) == RecordsOf(disk_documents, document_links[k])

\* C21 as claimed: the record persisted for the i-th link of page p carries
\* page number p, position i and a capture timestamp.
RecordCarriesPosition ==
  InItemLoop =>
    \A k \in 1..Len(item_log) :
      item_log[k][2] = "saved" =>
        \E r \in SavedAt(k) :
          /\ r.page_number = page_num
          /\ "position" \in DOMAIN r /\ r["position"] = k
          /\ r.scraped_at = clock

\* C21 as amended: the k-th item attempted is the k-th link of the page, and
\* the one record persisted for it carries the link, the page number of the
\* page and the time of this capture; a record has the columns of the schema,
\* none of which is a position.
RecordCarriesPage ==
  InItemLoop =>
    \A k \in 1..Len(item_log) :
      /\ item_log[k][1] = document_links[k]
      /\ item_log[k][2] = "saved" =>
           /\ Cardinality(SavedAt(k)) = 1
           /\ \A r \in SavedAt(k) :
                /\ r.page_number = page_num
                /\ r.scraped_at = clock
                /\ DOMAIN r = ColumnSet
                /\ "position" \notin DOMAIN r

\* the second link of page 1 has been persisted by a later run than the one
\* that stored a record first
RecordProvenanceWitness ==
  /\ InItemLoop /\ page_num = 1 /\ clock > 1
  /\ Len(item_log) = 2 /\ item_log[2][2] = "saved"
  /\ \E r \in SavedAt(2) : r.page_number = 1 /\ r.scraped_at = clock
  /\ \E r \in disk_documents : r.page_number = 0 /\ r.scraped_at < clock

(* ------------------------------ C22 ----------------------------------- *)
\* the rows of the output file that hold the stored record r
RowsOf(r) ==
  {k \in 1..Len(csv_file.rows) :
     \A c \in 1..Len(columns) :
       csv_file.rows[k][IF c <= PageNumberAt THEN c ELSE c + 2] = r[columns[c]]}

\* the output file holds every stored record in one row, and nothing else
OneRowPerRecord ==
  /\ csv_file.written
  /\ csv_file.header = ExportColumns(columns)
  /\ Len(csv_file.rows) = Cardinality(documents)
  /\ \A r \in documents : Cardinality(RowsOf(r)) = 1
  /\ \A k \in 1..Len(csv_file.rows) : \E r \in documents : k \in RowsOf(r)

\* C22 as claimed: whatever the store holds, an empty documents table
\* included, export_to_csv writes a file of a header row and one row per
\* stored record.
ExportAlwaysWritten == pc = "exported" => OneRowPerRecord

\* C22 as amended: export_to_csv writes a file of a header row and one row
\* per stored record when the documents table holds a record, and writes no
\* file when the table is empty.
ExportComplete ==
  pc = "exported" =>
    IF documents = {} THEN csv_file = NoFile ELSE OneRowPerRecord

\* an export of two records, one of them written twice with different
\* payloads and one without page number
ExportCompleteWitness ==
  /\ pc = "exported"
  /\ Cardinality(documents) = 2
  /\ Len(csv_file.rows) = 2
  /\ \E u \in DOMAIN last_payload : last_payload[u].replaced
  /\ \E r \in documents : r.page_number = Null

(* ------------------------------ C23 ----------------------------------- *)
\* the navigations of this scrape_page call
Navigations == {call \in driver_log : call[1] \in {"get", "get_document"}}

\* C23: a running scrape_range comes to its end; it starts a page only
\* inside start_page..end_page and ends it by going one page further, so it
\* makes at most end_page - start_page + 1 page attempts; it navigates to the
\* search page only at the head of a scrape_page call and to a link only at
\* the head of its item, neither of them having been navigated to in this
\* call; and when start_page > end_page it starts no page and leaves the store
\* as it was, the driver having been acquired and released.
RangeTerminates ==
  /\ [](InPageLoop => <>(pc \in {"returned", "idle"}))
  /\ [](/\ InPageLoop =>
             /\ start_page <= page_num
             /\ page_num <= (IF start_page > end_page THEN start_page
                             ELSE end_page + 1)
        /\ pc = "driver_get" => Navigations = {}
        /\ pc = "scrape_document" =>
             /\ <<"get_document", page_num, document_links[item]>>
                  \notin driver_log
             /\ Cardinality(Navigations) = item
        /\ (pc = "returned" /\ start_page > end_page) =>
             /\ run_outcome \in {"completed", "failed"}
             /\ driver = "None"
             /\ page_result = NoResult
             /\ documents = at_run_start.documents
             /\ completed_pages = at_run_start.completed_pages
             /\ disk_documents = at_run_start.documents
             /\ disk_completed = at_run_start.completed_pages)
  /\ [][/\ (pc # "scrape_page" /\ pc' = "scrape_page") => page_num <= end_page
        /\ (InScrapePage /\ pc' = "range_loop") => page_num' = page_num + 1
        /\ (Navigations' # Navigations /\ Navigations' # {}) =>
             \/ pc = "driver_get"
                  /\ Navigations' = {<<"get", page_num, Null>>}
             \/ pc = "scrape_document"
                  /\ Navigations' = Navigations \cup
                       {<<"get_document", page_num, document_links[item]>>}
        /\ (pc = "idle" /\ pc' # "idle" /\ start_page' > end_page') =>
             (driver' = "Driver" => pc' = "range_loop")
        /\ (pc = "range_loop" /\ start_page > end_page) =>
             (driver = "Driver" /\ driver' = "None" /\ pc' \in {"returned", "idle"})
       ]_vars

\* a scrape_range(0, 1) has come to its end after two page attempts, both
\* pages marked by it
RangeTerminatesWitness ==
  /\ pc = "returned" /\ run_outcome = "completed"
  /\ start_page = 0 /\ end_page = 1 /\ page_num = 2
  /\ \A page \in {0, 1} :
       \E r \in disk_completed : r.page_number = page /\ r.completed_at = clock

====
